---------------------------- MODULE Spec2Model ----------------------------
(***************************************************************************)
(* Model of the live session manager of src/components/LiveSession.tsx:    *)
(* the LiveSession component's state and refs, its handlers cleanup and    *)
(* handleStartSession, and the callbacks it hands to ai.live.connect.      *)
(*                                                                         *)
(* Every invocation of handleStartSession that passes its guard is a       *)
(* "session" i in Sessions.  The objects an invocation creates (its local  *)
(* micStream, screenStream, inputCtx, outputCtx, sessionPromise and the    *)
(* timers its onopen callback starts) are indexed by i; a ref of the       *)
(* component holds the index of the object it points to, 0 for null.       *)
(*                                                                         *)
(* JavaScript runs one handler at a time and a handler is suspended only   *)
(* at an await; an action of the model is one such run-to-suspension step. *)
(* React state (useState) is read as its latest value.                     *)
(***************************************************************************)
EXTENDS Integers, Sequences, FiniteSets, TLC

\* ---- bounds of the model ----
MaxStarts == 2      \* invocations of handleStartSession
MaxStops == 1       \* invocations of cleanup by the user (Kill Session)
MaxMsgs == 2        \* server messages delivered to onmessage
MaxPlayMsgs == 3    \* server messages of the playback and transcript runs (PlaySpec)
MaxClock == 3       \* ticks of currentTime of an output AudioContext
MaxFrames == 3      \* uplink frames (audio and image) captured

Max(a, b) == IF a >= b THEN a ELSE b

Sessions == 1..MaxStarts
MsgIds == 1..MaxMsgs

\* The messages received are numbered in arrival order; the
\* AudioBufferSourceNode created for the audio of message h is handle h.
Handles == 1..Max(MaxMsgs, MaxPlayMsgs)
FrameIds == 1..MaxFrames

VARIABLES
  \* React state of the component (LiveSession.tsx:88-97)
  status, errorMsg, transcriptions, liveInput, liveOutput,
  isScreenShared, isModelThinking,
  \* refs (LiveSession.tsx:100-115)
  inputAudioCtxRef, outputAudioCtxRef, nextStartTime, activeSources,
  sessionPromiseRef, animationFrameRef, screenStreamRef, micStreamRef,
  frameIntervalRef, currentInput, currentOutput,
  \* the objects the sessions created
  micStream, screenStream, inputCtx, outputCtx, outputClock,
  conn, frameInterval, volumeLoop, src,
  \* control state: handlers suspended at an await, and counters
  calls, pc, cleanupsIn, cleanupsOut, stops, nMsgs, decodes,
  \* an exception that escaped cleanup()
  err,
  \* the uplink of each session: whether its sessionPromise has resolved, the
  \* sends registered on it with then() and not yet run, the frames that
  \* reached the remote side, the number of image encodings in flight, and
  \* the number of sends submitted so far
  resolved, pendingSends, sent, encoding, nFrames,
  \* history: the transcription texts received on each connection since its
  \* last turnComplete, in arrival order, and the numbers of the messages
  \* that had the interrupted flag
  heardInput, heardOutput, heardInterrupt,
  \* history, kept in the screen-share runs: the sessions whose screen
  \* track has fired its ended event
  endedSignal,
  \* signal processing: what a capture callback was handed (an audio buffer
  \* with the two rates, or the dimensions of the video element) and what
  \* the callback has computed from it so far
  capture, produced

reactVars == <<status, errorMsg, transcriptions, liveInput, liveOutput,
               isScreenShared, isModelThinking>>
refVars == <<inputAudioCtxRef, outputAudioCtxRef, nextStartTime, activeSources,
             sessionPromiseRef, animationFrameRef, screenStreamRef, micStreamRef,
             frameIntervalRef, currentInput, currentOutput>>
objVars == <<micStream, screenStream, inputCtx, outputCtx, outputClock,
             conn, frameInterval, volumeLoop, src>>
ctlVars == <<calls, pc, cleanupsIn, cleanupsOut, stops, nMsgs, decodes>>
upVars == <<resolved, pendingSends, sent, encoding, nFrames>>
ghostVars == <<heardInput, heardOutput, heardInterrupt, endedSignal>>
dspVars == <<capture, produced>>
vars == <<reactVars, refVars, objVars, ctlVars, err, upVars, ghostVars, dspVars>>

\* Everything a handler of the component can read or write: the program's
\* state without the bookkeeping of who has been invoked how often.
progVars == <<reactVars, refVars, objVars, err>>

\* ---------------------------------------------------------------------
\* cleanup (LiveSession.tsx:125-149), as functions of the state it touches
\* ---------------------------------------------------------------------

\* The part of the state cleanup() reads or writes.
Cur ==
  [status |-> status, liveInput |-> liveInput, liveOutput |-> liveOutput,
   currentInput |-> currentInput, currentOutput |-> currentOutput,
   frameIntervalRef |-> frameIntervalRef, frameInterval |-> frameInterval,
   animationFrameRef |-> animationFrameRef, volumeLoop |-> volumeLoop,
   screenStreamRef |-> screenStreamRef, screenStream |-> screenStream,
   micStreamRef |-> micStreamRef, micStream |-> micStream,
   activeSources |-> activeSources, src |-> src,
   inputAudioCtxRef |-> inputAudioCtxRef, inputCtx |-> inputCtx,
   outputAudioCtxRef |-> outputAudioCtxRef, outputCtx |-> outputCtx,
   sessionPromiseRef |-> sessionPromiseRef,
   isScreenShared |-> isScreenShared, isModelThinking |-> isModelThinking,
   err |-> err]

\* The state S becomes the current state.
Install(S) ==
  /\ status' = S.status
  /\ liveInput' = S.liveInput
  /\ liveOutput' = S.liveOutput
  /\ currentInput' = S.currentInput
  /\ currentOutput' = S.currentOutput
  /\ frameIntervalRef' = S.frameIntervalRef
  /\ frameInterval' = S.frameInterval
  /\ animationFrameRef' = S.animationFrameRef
  /\ volumeLoop' = S.volumeLoop
  /\ screenStreamRef' = S.screenStreamRef
  /\ screenStream' = S.screenStream
  /\ micStreamRef' = S.micStreamRef
  /\ micStream' = S.micStream
  /\ activeSources' = S.activeSources
  /\ src' = S.src
  /\ inputAudioCtxRef' = S.inputAudioCtxRef
  /\ inputCtx' = S.inputCtx
  /\ outputAudioCtxRef' = S.outputAudioCtxRef
  /\ outputCtx' = S.outputCtx
  /\ sessionPromiseRef' = S.sessionPromiseRef
  /\ isScreenShared' = S.isScreenShared
  /\ isModelThinking' = S.isModelThinking
  /\ err' = S.err

\* What cleanup() leaves alone.
cleanupFrame == <<errorMsg, transcriptions, nextStartTime, outputClock, conn>>

\* MediaStreamTrack.stop() on every track of a stream: a stopped track stays stopped.
StopTracks(t) == IF t = "live" THEN "stopped" ELSE t

\* clearInterval(id): a running interval is cleared, a cleared one stays cleared.
ClearInterval(t) == IF t = "running" THEN "cleared" ELSE t

\* cancelAnimationFrame(id): the loop whose pending frame the id names stops.
CancelFrame(l) == IF l = "running" THEN "cancelled" ELSE l

\* s.stop() inside try/catch (line 138): the node is stopped, nothing is thrown.
StopSource(s) == IF s.state = "scheduled" THEN [s EXCEPT !.state = "stopped"] ELSE s

\* Whether the rejection of close() on an already closed context escapes
\* cleanup: `.catch(() => {})` (lines 141-142) swallows it.
CloseEscapesUncaught(c) == c = "closed"

CloseEscapes(c) == FALSE

\* Whether `await ctx.close()` suspends cleanup for a task of the event loop:
\* closing a live context does; close() on a closed one rejects at once and
\* the continuation runs in the same task.
ClosePending(c) == c = "live"

\* lines 126-139: the synchronous head
CleanupHead(S) ==
  [S EXCEPT
     !.status = "idle",
     !.liveInput = <<>>,
     !.liveOutput = <<>>,
     !.currentInput = <<>>,
     !.currentOutput = <<>>,
     !.frameInterval = IF S.frameIntervalRef # 0
                         THEN [@ EXCEPT ![S.frameIntervalRef] = ClearInterval(@)]
                         ELSE @,
     !.volumeLoop = IF S.animationFrameRef # 0
                      THEN [@ EXCEPT ![S.animationFrameRef] = CancelFrame(@)]
                      ELSE @,
     !.screenStream = IF S.screenStreamRef # 0
                        THEN [@ EXCEPT ![S.screenStreamRef] = StopTracks(@)]
                        ELSE @,
     !.screenStreamRef = 0,
     !.micStream = IF S.micStreamRef # 0
                     THEN [@ EXCEPT ![S.micStreamRef] = StopTracks(@)]
                     ELSE @,
     !.micStreamRef = 0,
     !.src = [h \in DOMAIN @ |-> IF h \in S.activeSources THEN StopSource(@[h]) ELSE @[h]],
     !.activeSources = {}]

\* line 141: if (inputAudioCtxRef.current) await inputAudioCtxRef.current.close().catch(...)
CleanupCloseInput(S) ==
  IF S.inputAudioCtxRef = 0 THEN S
  ELSE [S EXCEPT !.inputCtx[S.inputAudioCtxRef] = "closed",
                 !.err = @ \/ CloseEscapes(S.inputCtx[S.inputAudioCtxRef])]

\* line 142: the same for the output context
CleanupCloseOutput(S) ==
  IF S.outputAudioCtxRef = 0 THEN S
  ELSE [S EXCEPT !.outputCtx[S.outputAudioCtxRef] = "closed",
                 !.err = @ \/ CloseEscapes(S.outputCtx[S.outputAudioCtxRef])]

\* lines 144-148
CleanupTail(S) ==
  [S EXCEPT !.inputAudioCtxRef = 0,
            !.outputAudioCtxRef = 0,
            !.sessionPromiseRef = 0,
            !.isScreenShared = FALSE,
            !.isModelThinking = FALSE]

\* Whether cleanup, about to run line 141 (142) in state S, is suspended there.
SuspendsAtInput(S) == S.inputAudioCtxRef # 0 /\ ClosePending(S.inputCtx[S.inputAudioCtxRef])
SuspendsAtOutput(S) == S.outputAudioCtxRef # 0 /\ ClosePending(S.outputCtx[S.outputAudioCtxRef])

\* cleanup from line 142 on, up to its next suspension: the state it leaves
\* and where it stands ("out": awaiting at 142, "done": returned).
CleanupFromOutput(S) ==
  IF SuspendsAtOutput(S)
    THEN [st |-> CleanupCloseOutput(S), at |-> "out"]
    ELSE [st |-> CleanupTail(CleanupCloseOutput(S)), at |-> "done"]

\* cleanup from its first line up to its first suspension ("in": awaiting at 141).
CleanupFromStart(S) ==
  LET H == CleanupHead(S) IN
  IF SuspendsAtInput(H)
    THEN [st |-> CleanupCloseInput(H), at |-> "in"]
    ELSE CleanupFromOutput(CleanupCloseInput(H))

\* One whole run of cleanup() with nothing else running in between.
CleanupRun(S) == CleanupTail(CleanupCloseOutput(CleanupCloseInput(CleanupHead(S))))

\* ---------------------------------------------------------------------
\* the state after construction (LiveSession.tsx:88-115)
\* ---------------------------------------------------------------------

NoSource == [state |-> "none", ctx |-> 0, start |-> 0, dur |-> 0]

\* no capture callback has run
NoCapture == [kind |-> "none"]
NotProduced == [stage |-> "none"]

ProgInit ==
  /\ status = "idle"
  /\ errorMsg = "null"
  /\ transcriptions = <<>>
  /\ liveInput = <<>>
  /\ liveOutput = <<>>
  /\ isScreenShared = FALSE
  /\ isModelThinking = FALSE
  /\ inputAudioCtxRef = 0
  /\ outputAudioCtxRef = 0
  /\ nextStartTime = 0
  /\ activeSources = {}
  /\ sessionPromiseRef = 0
  /\ animationFrameRef = 0
  /\ screenStreamRef = 0
  /\ micStreamRef = 0
  /\ frameIntervalRef = 0
  /\ currentInput = <<>>
  /\ currentOutput = <<>>
  /\ micStream = [i \in Sessions |-> "none"]
  /\ screenStream = [i \in Sessions |-> "none"]
  /\ inputCtx = [i \in Sessions |-> "none"]
  /\ outputCtx = [i \in Sessions |-> "none"]
  /\ outputClock = [i \in Sessions |-> 0]
  /\ conn = [i \in Sessions |-> "none"]
  /\ frameInterval = [i \in Sessions |-> "none"]
  /\ volumeLoop = [i \in Sessions |-> "none"]
  /\ src = [h \in Handles |-> NoSource]
  /\ calls = 0
  /\ pc = [i \in Sessions |-> "none"]
  /\ cleanupsIn = 0
  /\ cleanupsOut = 0
  /\ stops = 0
  /\ nMsgs = 0
  /\ decodes = {}
  /\ err = FALSE
  /\ resolved = [i \in Sessions |-> FALSE]
  /\ pendingSends = [i \in Sessions |-> <<>>]
  /\ sent = [i \in Sessions |-> <<>>]
  /\ encoding = [i \in Sessions |-> 0]
  /\ nFrames = 0
  /\ heardInput = [i \in Sessions |-> <<>>]
  /\ heardOutput = [i \in Sessions |-> <<>>]
  /\ heardInterrupt = {}
  /\ endedSignal = {}

Init ==
  /\ ProgInit
  /\ capture = NoCapture
  /\ produced = NotProduced

\* The continuation of a handler whose awaited promise is already settled
\* runs before the event loop takes any other task: while a start stands at
\* "afterCleanup" nothing else runs.
NoContinuationDue == \A i \in Sessions : pc[i] # "afterCleanup"

\* ---------------------------------------------------------------------
\* cleanup() called on its own: the Kill Session button and onclose
\* ---------------------------------------------------------------------

\* A call of cleanup() runs to its first suspension; a suspended call is
\* counted at the line it awaits (a suspended cleanup holds no local state).
CallCleanup ==
  LET r == CleanupFromStart(Cur) IN
    /\ Install(r.st)
    /\ cleanupsIn' = IF r.at = "in" THEN cleanupsIn + 1 ELSE cleanupsIn
    /\ cleanupsOut' = IF r.at = "out" THEN cleanupsOut + 1 ELSE cleanupsOut
    /\ UNCHANGED <<errorMsg, transcriptions, nextStartTime, outputClock>>

\* the user's call of cleanup (LiveSession.tsx:336, onClick={cleanup})
KillSession ==
  /\ NoContinuationDue
  /\ stops < MaxStops
  /\ stops' = stops + 1
  /\ CallCleanup
  /\ UNCHANGED <<conn, calls, pc, nMsgs, decodes>>
  /\ UNCHANGED <<ghostVars, upVars, dspVars>>

\* inputCtx.close() has settled: cleanup goes on from line 142
CleanupResumeInput ==
  /\ NoContinuationDue
  /\ cleanupsIn > 0
  /\ LET r == CleanupFromOutput(Cur) IN
       /\ Install(r.st)
       /\ cleanupsIn' = cleanupsIn - 1
       /\ cleanupsOut' = IF r.at = "out" THEN cleanupsOut + 1 ELSE cleanupsOut
  /\ UNCHANGED <<cleanupFrame, calls, pc, stops, nMsgs, decodes>>
  /\ UNCHANGED <<ghostVars, upVars, dspVars>>

\* outputCtx.close() has settled: cleanup runs lines 144-148 and returns
CleanupResumeOutput ==
  /\ NoContinuationDue
  /\ cleanupsOut > 0
  /\ Install(CleanupTail(Cur))
  /\ cleanupsOut' = cleanupsOut - 1
  /\ UNCHANGED <<cleanupFrame, calls, pc, stops, nMsgs, decodes, cleanupsIn>>
  /\ UNCHANGED <<ghostVars, upVars, dspVars>>

\* ---------------------------------------------------------------------
\* handleStartSession (LiveSession.tsx:180-311)
\* ---------------------------------------------------------------------

\* line 181: the states in which handleStartSession returns at once
StartGuardNone(st) == FALSE

StartGuard(st) == st = "connecting"

\* the call: lines 181-183, up to the first suspension.  `await cleanup()`
\* suspends handleStartSession even when cleanup() itself never waited: the
\* rest of the handler is a continuation ("afterCleanup").
HandleStartSession ==
  /\ NoContinuationDue
  /\ calls < MaxStarts
  /\ calls' = calls + 1
  /\ LET i == calls + 1 IN
       IF StartGuard(status)
         THEN /\ pc' = [pc EXCEPT ![i] = "done"]
              /\ UNCHANGED progVars
         ELSE LET r == CleanupFromStart(Cur) IN
                /\ Install(r.st)
                /\ pc' = [pc EXCEPT ![i] = CASE r.at = "in" -> "cleanupIn"
                                             [] r.at = "out" -> "cleanupOut"
                                             [] OTHER -> "afterCleanup"]
                /\ UNCHANGED cleanupFrame
  /\ UNCHANGED <<cleanupsIn, cleanupsOut, stops, nMsgs, decodes>>
  /\ UNCHANGED <<ghostVars, upVars, dspVars>>

\* `await cleanup()` of start i, suspended at line 141, goes on
StartCleanupResumeInput(i) ==
  /\ NoContinuationDue
  /\ pc[i] = "cleanupIn"
  /\ LET r == CleanupFromOutput(Cur) IN
       /\ Install(r.st)
       /\ pc' = [pc EXCEPT ![i] = IF r.at = "out" THEN "cleanupOut" ELSE "afterCleanup"]
  /\ UNCHANGED cleanupFrame
  /\ UNCHANGED <<calls, cleanupsIn, cleanupsOut, stops, nMsgs, decodes>>
  /\ UNCHANGED <<ghostVars, upVars, dspVars>>

\* `await cleanup()` of start i, suspended at line 142, goes on
StartCleanupResumeOutput(i) ==
  /\ NoContinuationDue
  /\ pc[i] = "cleanupOut"
  /\ Install(CleanupTail(Cur))
  /\ pc' = [pc EXCEPT ![i] = "afterCleanup"]
  /\ UNCHANGED cleanupFrame
  /\ UNCHANGED <<calls, cleanupsIn, cleanupsOut, stops, nMsgs, decodes>>
  /\ UNCHANGED <<ghostVars, upVars, dspVars>>

\* cleanup() has returned to start i: lines 184-185 and the call of
\* getUserMedia at 189
StartAfterCleanup(i) ==
  /\ pc[i] = "afterCleanup"
  /\ status' = "connecting"
  /\ errorMsg' = "null"
  /\ pc' = [pc EXCEPT ![i] = "getUserMedia"]
  /\ UNCHANGED <<transcriptions, liveInput, liveOutput, isScreenShared, isModelThinking>>
  /\ UNCHANGED <<refVars, objVars, err>>
  /\ UNCHANGED <<calls, cleanupsIn, cleanupsOut, stops, nMsgs, decodes>>
  /\ UNCHANGED <<ghostVars, upVars, dspVars>>

\* the catch block of lines 306-310
StartCatch(i) ==
  /\ status' = "error"
  /\ errorMsg' = "Connection failed"
  /\ pc' = [pc EXCEPT ![i] = "done"]


\* getUserMedia settles (line 189)
GetUserMedia(i, granted) ==
  /\ NoContinuationDue
  /\ pc[i] = "getUserMedia"
  /\ IF granted
       THEN /\ micStream' = [micStream EXCEPT ![i] = "live"]
            /\ pc' = [pc EXCEPT ![i] = "getDisplayMedia"]
            /\ UNCHANGED <<status, errorMsg>>
       ELSE /\ StartCatch(i)
            /\ UNCHANGED micStream
  /\ UNCHANGED <<transcriptions, liveInput, liveOutput, isScreenShared, isModelThinking>>
  /\ UNCHANGED <<refVars, screenStream, inputCtx, outputCtx, outputClock,
                 conn, frameInterval, volumeLoop, src, err>>
  /\ UNCHANGED <<calls, cleanupsIn, cleanupsOut, stops, nMsgs, decodes>>
  /\ UNCHANGED <<ghostVars, upVars, dspVars>>

\* line 196: what the refusal of the screen share does to the microphone
\* stream this start obtained
KeepTracks(t) == t

ReleaseOnScreenRefusal(t) == StopTracks(t)

\* getDisplayMedia rejects (lines 194-199)
ScreenRefused(i) ==
  /\ NoContinuationDue
  /\ pc[i] = "getDisplayMedia"
  /\ micStream' = [micStream EXCEPT ![i] = ReleaseOnScreenRefusal(@)]
  /\ status' = "idle"
  /\ pc' = [pc EXCEPT ![i] = "done"]
  /\ UNCHANGED <<errorMsg, transcriptions, liveInput, liveOutput, isScreenShared, isModelThinking>>
  /\ UNCHANGED <<refVars, screenStream, inputCtx, outputCtx, outputClock,
                 conn, frameInterval, volumeLoop, src, err>>
  /\ UNCHANGED <<calls, cleanupsIn, cleanupsOut, stops, nMsgs, decodes>>
  /\ UNCHANGED <<ghostVars, upVars, dspVars>>

\* Where the synchronous part of lines 202-305 may throw: constructing the
\* input AudioContext (215), or constructing the client and connecting (226-227).
ThrowPoints == {"none", "inputCtx", "connect"}

\* getDisplayMedia resolves: lines 202-305 run without suspension
ScreenGranted(i, tp) ==
  /\ NoContinuationDue
  /\ pc[i] = "getDisplayMedia"
  /\ micStreamRef' = i
  /\ screenStreamRef' = i
  /\ screenStream' = [screenStream EXCEPT ![i] = "live"]
  /\ isScreenShared' = TRUE
  /\ IF tp = "inputCtx"
       THEN /\ StartCatch(i)
            /\ UNCHANGED <<inputCtx, inputAudioCtxRef, outputCtx, outputAudioCtxRef,
                           conn, sessionPromiseRef>>
       ELSE /\ inputCtx' = [inputCtx EXCEPT ![i] = "live"]
            /\ inputAudioCtxRef' = i
            /\ outputCtx' = [outputCtx EXCEPT ![i] = "live"]
            /\ outputAudioCtxRef' = i
            /\ IF tp = "connect"
                 THEN /\ StartCatch(i)
                      /\ UNCHANGED <<conn, sessionPromiseRef>>
                 ELSE /\ conn' = [conn EXCEPT ![i] = "connecting"]
                      /\ sessionPromiseRef' = i
                      /\ pc' = [pc EXCEPT ![i] = "done"]
                      /\ UNCHANGED <<status, errorMsg>>
  /\ UNCHANGED <<transcriptions, liveInput, liveOutput, isModelThinking>>
  /\ UNCHANGED <<nextStartTime, activeSources, animationFrameRef, frameIntervalRef,
                 currentInput, currentOutput>>
  /\ UNCHANGED <<micStream, outputClock, frameInterval, volumeLoop, src, err>>
  /\ UNCHANGED <<calls, cleanupsIn, cleanupsOut, stops, nMsgs, decodes>>
  /\ UNCHANGED <<ghostVars, upVars, dspVars>>

\* the onended handler of the screen track (lines 207-212): the user stops
\* sharing in the browser's own UI.  The handler is installed in the step
\* that makes the stream live, so a live stream has it.
onended(i) ==
  /\ NoContinuationDue
  /\ screenStream[i] = "live"
  /\ screenStream' = [screenStream EXCEPT ![i] = "stopped"]
  /\ isScreenShared' = FALSE
  /\ frameInterval' = IF frameIntervalRef # 0
                        THEN [frameInterval EXCEPT ![frameIntervalRef] = ClearInterval(@)]
                        ELSE frameInterval
  /\ screenStreamRef' = 0
  /\ UNCHANGED <<status, errorMsg, transcriptions, liveInput, liveOutput, isModelThinking>>
  /\ UNCHANGED <<inputAudioCtxRef, outputAudioCtxRef, nextStartTime, activeSources,
                 sessionPromiseRef, animationFrameRef, micStreamRef,
                 frameIntervalRef, currentInput, currentOutput>>
  /\ UNCHANGED <<micStream, inputCtx, outputCtx, outputClock, conn, volumeLoop, src, err>>
  /\ UNCHANGED ctlVars
  /\ UNCHANGED <<heardInput, heardOutput, heardInterrupt, upVars, dspVars>>

\* the ended event of the screen track of session i
ScreenTrackEnded(i) ==
  /\ onended(i)
  /\ UNCHANGED endedSignal

\* the same event in the runs that keep the history of the ended events
ScreenTrackEndedSignal(i) ==
  /\ onended(i)
  /\ endedSignal' = endedSignal \cup {i}

\* ---------------------------------------------------------------------
\* the callbacks handed to ai.live.connect (LiveSession.tsx:229-298)
\* ---------------------------------------------------------------------
\* conn[i] is the connection of session i as the remote side drives it:
\* "connecting" -> "open" -> "closed"; an error ("errored") is followed by
\* nothing but the close; "rejected": the session promise was rejected and
\* no callback is made.  cleanup() never closes a connection (line 146 only
\* drops the ref), so the callbacks of a session go on after it.

\* onopen (lines 230-267)
OnOpen(i) ==
  /\ NoContinuationDue
  /\ conn[i] = "connecting"
  /\ conn' = [conn EXCEPT ![i] = "open"]
  /\ status' = "active"
  /\ frameInterval' = [frameInterval EXCEPT ![i] = "running"]
  /\ frameIntervalRef' = i
  /\ volumeLoop' = [volumeLoop EXCEPT ![i] = "running"]
  /\ animationFrameRef' = i
  /\ UNCHANGED <<errorMsg, transcriptions, liveInput, liveOutput, isScreenShared, isModelThinking>>
  /\ UNCHANGED <<inputAudioCtxRef, outputAudioCtxRef, nextStartTime, activeSources,
                 sessionPromiseRef, screenStreamRef, micStreamRef, currentInput, currentOutput>>
  /\ UNCHANGED <<micStream, screenStream, inputCtx, outputCtx, outputClock, src, err>>
  /\ UNCHANGED ctlVars
  /\ UNCHANGED <<ghostVars, upVars, dspVars>>

\* updateVolumes run by requestAnimationFrame (lines 166-178): the loop that
\* onopen of session i started stores the id of its next frame
VolumeFrame(i) ==
  /\ NoContinuationDue
  /\ volumeLoop[i] = "running"
  /\ animationFrameRef # i
  /\ animationFrameRef' = i
  /\ UNCHANGED <<reactVars, objVars, ctlVars, err>>
  /\ UNCHANGED <<inputAudioCtxRef, outputAudioCtxRef, nextStartTime, activeSources,
                 sessionPromiseRef, screenStreamRef, micStreamRef,
                 frameIntervalRef, currentInput, currentOutput>>
  /\ UNCHANGED <<ghostVars, upVars, dspVars>>

\* onerror (line 297)
OnError(i) ==
  /\ NoContinuationDue
  /\ conn[i] \in {"connecting", "open"}
  /\ conn' = [conn EXCEPT ![i] = "errored"]
  /\ status' = "error"
  /\ UNCHANGED <<errorMsg, transcriptions, liveInput, liveOutput, isScreenShared, isModelThinking>>
  /\ UNCHANGED <<refVars, micStream, screenStream, inputCtx, outputCtx, outputClock,
                 frameInterval, volumeLoop, src, err>>
  /\ UNCHANGED ctlVars
  /\ UNCHANGED <<ghostVars, upVars, dspVars>>

\* onclose (line 296)
OnClose(i) ==
  /\ NoContinuationDue
  /\ conn[i] \in {"connecting", "open", "errored"}
  /\ conn' = [conn EXCEPT ![i] = "closed"]
  /\ CallCleanup
  /\ UNCHANGED <<calls, pc, stops, nMsgs, decodes>>
  /\ UNCHANGED <<ghostVars, upVars, dspVars>>

\* the promise of ai.live.connect is rejected; nothing of lines 227-305
\* handles a rejection (the promise is never awaited and has no catch)
SessionRejected(i) ==
  /\ NoContinuationDue
  /\ conn[i] = "connecting"
  /\ conn' = [conn EXCEPT ![i] = "rejected"]
  /\ UNCHANGED <<reactVars, refVars, micStream, screenStream, inputCtx, outputCtx,
                 outputClock, frameInterval, volumeLoop, src, err>>
  /\ UNCHANGED ctlVars
  /\ UNCHANGED <<ghostVars, upVars, dspVars>>

\* ---------------------------------------------------------------------
\* onmessage (LiveSession.tsx:268-295)
\* ---------------------------------------------------------------------
\* A server message: the duration of its audio part (0: none), the texts of
\* its inputTranscription and outputTranscription (<<>>: none), and its
\* turnComplete and interrupted flags.  Text is a sequence of characters.
Msg(a, i, o, t, x) ==
  [audio |-> a, inputTranscription |-> i, outputTranscription |-> o,
   turnComplete |-> t, interrupted |-> x]

Messages ==
  { Msg(1, <<>>, <<>>, FALSE, FALSE),
    Msg(0, <<"a">>, <<"b">>, FALSE, FALSE),
    Msg(0, <<>>, <<>>, FALSE, TRUE) }

\* The messages of the playback and transcript runs: audio of two durations,
\* one of them in a message that also carries a transcription, turnComplete,
\* and a message that closes a turn whose input transcription is one space.
PlayMessages ==
  Messages \cup { Msg(2, <<>>, <<"c">>, FALSE, FALSE),
                  Msg(0, <<>>, <<>>, TRUE, FALSE),
                  Msg(0, <<" ">>, <<"b">>, TRUE, FALSE) }

\* lines 282-287: the updater copies the log p and pushes the entries es
ReplaceEntries(p, es) == es

PushEntries(p, es) == p \o es

\* lines 283-286: the order in which the entries of a turn are pushed
FlushOrderSwapped(user, model) == model \o user

FlushOrder(user, model) == user \o model

\* lines 284-285: if (userText.trim()) is false for a text that trim()
\* turns into the empty string
IsEmptyText(text) == text = <<>>

IsBlank(text) == \A k \in 1..Len(text) : text[k] = " "

\* lines 276-294 for message m; `now` is Date.now()
MessageTail(m, now) ==
  LET ci == currentInput \o m.inputTranscription
      co == currentOutput \o m.outputTranscription
      user == IF IsBlank(ci) THEN <<>>
              ELSE << [role |-> "user", text |-> ci, timestamp |-> now] >>
      model == IF IsBlank(co) THEN <<>>
               ELSE << [role |-> "model", text |-> co, timestamp |-> now] >>
  IN
  /\ isModelThinking' = IF m.turnComplete THEN FALSE
                        ELSE IF m.outputTranscription # <<>> THEN TRUE
                        ELSE isModelThinking
  /\ IF m.turnComplete
       THEN /\ transcriptions' = PushEntries(transcriptions, FlushOrder(user, model))
            /\ currentInput' = <<>>
            /\ currentOutput' = <<>>
            /\ liveInput' = <<>>
            /\ liveOutput' = <<>>
       ELSE /\ transcriptions' = transcriptions
            /\ currentInput' = ci
            /\ currentOutput' = co
            /\ liveInput' = IF m.inputTranscription # <<>> THEN ci ELSE liveInput
            /\ liveOutput' = IF m.outputTranscription # <<>> THEN co ELSE liveOutput

\* line 271: nextStartTimeRef.current = Math.max(nextStartTimeRef.current, ctx.currentTime)
ArrivalCursorNow(cursor, now) == now

ArrivalCursor(cursor, now) == Max(cursor, now)

\* a message arrives on the connection of session i: lines 269-271, and the
\* rest of the handler when it has no audio to decode
onmessage(i, m) ==
  /\ NoContinuationDue
  /\ conn[i] = "open"
  /\ nMsgs' = nMsgs + 1
  /\ heardInput' = [heardInput EXCEPT ![i] = IF m.turnComplete THEN <<>>
                                              ELSE @ \o m.inputTranscription]
  /\ heardOutput' = [heardOutput EXCEPT ![i] = IF m.turnComplete THEN <<>>
                                                ELSE @ \o m.outputTranscription]
  /\ heardInterrupt' = IF m.interrupted THEN heardInterrupt \cup {nMsgs + 1}
                       ELSE heardInterrupt
  /\ UNCHANGED endedSignal
  /\ IF m.audio > 0 /\ outputAudioCtxRef # 0
       THEN /\ nextStartTime' = ArrivalCursor(nextStartTime, outputClock[outputAudioCtxRef])
            /\ decodes' = decodes \cup {[id |-> nMsgs + 1, ctx |-> outputAudioCtxRef, msg |-> m]}
            /\ UNCHANGED <<transcriptions, liveInput, liveOutput, isModelThinking,
                           currentInput, currentOutput>>
       ELSE /\ MessageTail(m, nMsgs + 1)
            /\ UNCHANGED <<nextStartTime, decodes>>
  /\ UNCHANGED <<status, errorMsg, isScreenShared>>
  /\ UNCHANGED <<inputAudioCtxRef, outputAudioCtxRef, activeSources,
                 sessionPromiseRef, animationFrameRef, screenStreamRef, micStreamRef,
                 frameIntervalRef>>
  /\ UNCHANGED <<objVars, err, upVars, dspVars>>
  /\ UNCHANGED <<calls, pc, cleanupsIn, cleanupsOut, stops>>

\* the remote side sends a message on the connection of session i
OnMessage(i, m) ==
  /\ nMsgs < MaxMsgs
  /\ onmessage(i, m)

PlayMessage(i, m) ==
  /\ nMsgs < MaxPlayMsgs
  /\ onmessage(i, m)

\* decodeAudioData (../utils/audio-utils) for the handler d has settled.  The
\* function is not among the sources; as the specification has it, the decode
\* is a suspension of the handler, it settles some time after the call, and
\* it may fail.  Nothing orders the decodes of different messages.
decodeAudioData(d) == d \in decodes

\* decodeAudioData settles for the handler of message k, suspended at line 272: on
\* success lines 273-294 run; on failure the handler ends with the rejection
DecodeDone(k, ok) ==
  /\ NoContinuationDue
  /\ \E d \in decodes :
     /\ decodeAudioData(d)
     /\ d.id = k
     /\ decodes' = decodes \ {d}
     /\ IF ok
          THEN /\ src' = [src EXCEPT ![d.id] = [state |-> "scheduled", ctx |-> d.ctx,
                                                start |-> nextStartTime, dur |-> d.msg.audio]]
               /\ nextStartTime' = nextStartTime + d.msg.audio
               /\ activeSources' = activeSources \cup {d.id}
               /\ MessageTail(d.msg, nMsgs)
          ELSE UNCHANGED <<src, nextStartTime, activeSources, transcriptions, liveInput,
                           liveOutput, isModelThinking, currentInput, currentOutput>>
  /\ UNCHANGED <<status, errorMsg, isScreenShared>>
  /\ UNCHANGED <<inputAudioCtxRef, outputAudioCtxRef,
                 sessionPromiseRef, animationFrameRef, screenStreamRef, micStreamRef,
                 frameIntervalRef>>
  /\ UNCHANGED <<micStream, screenStream, inputCtx, outputCtx, outputClock,
                 conn, frameInterval, volumeLoop, err>>
  /\ UNCHANGED <<calls, pc, cleanupsIn, cleanupsOut, stops, nMsgs>>
  /\ UNCHANGED <<ghostVars, upVars, dspVars>>

\* ---------------------------------------------------------------------
\* the output AudioContext's clock and the end of playback
\* ---------------------------------------------------------------------

\* currentTime of the output context of session i advances while it runs
ClockTick(i) ==
  /\ NoContinuationDue
  /\ outputCtx[i] = "live"
  /\ outputClock[i] < MaxClock
  /\ outputClock' = [outputClock EXCEPT ![i] = @ + 1]
  /\ UNCHANGED <<reactVars, refVars, err, ctlVars, upVars, ghostVars, dspVars>>
  /\ UNCHANGED <<micStream, screenStream, inputCtx, outputCtx,
                 conn, frameInterval, volumeLoop, src>>

\* The node of handle h has played its buffer to the end.  Line 273 sets no
\* onended on the node, so no code of the component runs.
SourceEnded(h) ==
  /\ NoContinuationDue
  /\ src[h].state = "scheduled"
  /\ outputCtx[src[h].ctx] = "live"
  /\ outputClock[src[h].ctx] >= src[h].start + src[h].dur
  /\ src' = [src EXCEPT ![h].state = "ended"]
  /\ UNCHANGED <<reactVars, refVars, err, ctlVars, upVars, ghostVars, dspVars>>
  /\ UNCHANGED <<micStream, screenStream, inputCtx, outputCtx, outputClock,
                 conn, frameInterval, volumeLoop>>

\* ---------------------------------------------------------------------
\* the uplink: onaudioprocess and the frame interval (LiveSession.tsx:235-264)
\* ---------------------------------------------------------------------
\* A frame is numbered by the order in which its send was submitted, that is
\* by the order of the calls of sessionPromise.then (lines 239 and 259).

Frame(n, kind) == [id |-> n, kind |-> kind]

\* s.sendRealtimeInput(f) on a session whose connection is in state c: the
\* frame reaches the remote side only while the connection is open; on a
\* closing or closed socket it is discarded and nothing is thrown.
Deliver(c, S, f) == IF c = "open" THEN Append(S, f) ELSE S

RECURSIVE DeliverAll(_, _, _)
DeliverAll(c, S, fs) ==
  IF fs = <<>> THEN S ELSE DeliverAll(c, Deliver(c, S, Head(fs)), Tail(fs))

\* sessionPromise.then(s => s.sendRealtimeInput(f)) (lines 239, 259) with r
\* telling whether the promise has resolved, P the reactions registered and
\* not yet run, S the frames delivered: on a resolved promise the reaction
\* runs as soon as the calling handler returns; on a pending one it is
\* registered behind the earlier ones.
SendNow(r, c, P, S, f) == [pending |-> P, sent |-> Deliver(c, S, f)]

SendThen(r, c, P, S, f) ==
  IF r THEN [pending |-> P, sent |-> Deliver(c, S, f)]
  ELSE [pending |-> Append(P, f), sent |-> S]

\* the send of the next frame is submitted for session i
Submit(i, kind) ==
  LET u == SendThen(resolved[i], conn[i], pendingSends[i], sent[i],
                    Frame(nFrames + 1, kind)) IN
  /\ nFrames' = nFrames + 1
  /\ pendingSends' = [pendingSends EXCEPT ![i] = u.pending]
  /\ sent' = [sent EXCEPT ![i] = u.sent]

\* the image encodings in flight, of sessions 1..n
RECURSIVE Encoding(_)
Encoding(n) == IF n = 0 THEN 0 ELSE encoding[n] + Encoding(n - 1)

\* frames captured so far: submitted, or still being encoded
Captured == nFrames + Encoding(MaxStarts)

\* onopen of session i has run: its ScriptProcessor and interval exist
Opened(i) == frameInterval[i] # "none"

\* onaudioprocess of the ScriptProcessor of session i (lines 235-240); the
\* node is driven by the input context of the session while that runs
AudioProcess(i) ==
  /\ NoContinuationDue
  /\ Opened(i)
  /\ inputCtx[i] = "live"
  /\ Captured < MaxFrames
  /\ Submit(i, "audio")
  /\ UNCHANGED <<reactVars, refVars, objVars, ctlVars, err, ghostVars, dspVars>>
  /\ UNCHANGED <<resolved, encoding>>

\* a tick of the interval of session i (lines 244-264) that passes the guard
\* of line 245 and finds a video with dimensions: toBlob is called
FrameTick(i) ==
  /\ NoContinuationDue
  /\ frameInterval[i] = "running"
  /\ screenStreamRef # 0
  /\ Captured < MaxFrames
  /\ encoding' = [encoding EXCEPT ![i] = @ + 1]
  /\ UNCHANGED <<reactVars, refVars, objVars, ctlVars, err, ghostVars, dspVars>>
  /\ UNCHANGED <<resolved, pendingSends, sent, nFrames>>

\* toBlob and the FileReader of one tick of session i are done: onloadend
\* (lines 257-260) submits the image
EncodeDone(i) ==
  /\ NoContinuationDue
  /\ encoding[i] > 0
  /\ encoding' = [encoding EXCEPT ![i] = @ - 1]
  /\ Submit(i, "image")
  /\ UNCHANGED <<reactVars, refVars, objVars, ctlVars, err, ghostVars, dspVars>>
  /\ UNCHANGED resolved

\* the promise returned by ai.live.connect (line 227) resolves, once the
\* connection has opened: the reactions registered on it run in the order
\* of their registration
SessionResolved(i) ==
  /\ NoContinuationDue
  /\ Opened(i)
  /\ ~resolved[i]
  /\ resolved' = [resolved EXCEPT ![i] = TRUE]
  /\ sent' = [sent EXCEPT ![i] = DeliverAll(conn[i], @, pendingSends[i])]
  /\ pendingSends' = [pendingSends EXCEPT ![i] = <<>>]
  /\ UNCHANGED <<reactVars, refVars, objVars, ctlVars, err, ghostVars, dspVars>>
  /\ UNCHANGED <<encoding, nFrames>>

\* ---------------------------------------------------------------------
\* the specification
\* ---------------------------------------------------------------------

Next ==
  \/ HandleStartSession
  \/ KillSession
  \/ CleanupResumeInput
  \/ CleanupResumeOutput
  \/ \E i \in Sessions : StartCleanupResumeInput(i)
  \/ \E i \in Sessions : StartCleanupResumeOutput(i)
  \/ \E i \in Sessions : StartAfterCleanup(i)
  \/ \E i \in Sessions, granted \in BOOLEAN : GetUserMedia(i, granted)
  \/ \E i \in Sessions : ScreenRefused(i)
  \/ \E i \in Sessions, tp \in ThrowPoints : ScreenGranted(i, tp)
  \/ \E i \in Sessions : ScreenTrackEnded(i)
  \/ \E i \in Sessions : OnOpen(i)
  \/ \E i \in Sessions : VolumeFrame(i)
  \/ \E i \in Sessions : OnError(i)
  \/ \E i \in Sessions : OnClose(i)
  \/ \E i \in Sessions : SessionRejected(i)
  \/ \E i \in Sessions, m \in Messages : OnMessage(i, m)
  \/ \E k \in MsgIds, ok \in BOOLEAN : DecodeDone(k, ok)

Spec == Init /\ [][Next]_vars

\* The event loop runs every continuation whose promise has settled: a
\* suspended cleanup or start goes on once close() has settled, and a
\* suspended message handler once the decode has.  Nothing obliges the user,
\* the permission prompts or the remote side to act.
Fairness ==
  /\ WF_vars(CleanupResumeInput)
  /\ WF_vars(CleanupResumeOutput)
  /\ \A i \in Sessions : WF_vars(StartCleanupResumeInput(i))
  /\ \A i \in Sessions : WF_vars(StartCleanupResumeOutput(i))
  /\ \A i \in Sessions : WF_vars(StartAfterCleanup(i))
  /\ \A k \in MsgIds : WF_vars(\E ok \in BOOLEAN : DecodeDone(k, ok))

FairSpec == Spec /\ Fairness

\* Playback and transcript: one session is started, the user grants both
\* permissions, the connection opens, the clock of the output context runs,
\* and the messages are drawn from PlayMessages.
FirstStart ==
  /\ calls = 0
  /\ HandleStartSession

PlayNext ==
  \/ FirstStart
  \/ KillSession
  \/ CleanupResumeInput
  \/ CleanupResumeOutput
  \/ \E i \in Sessions : StartAfterCleanup(i)
  \/ \E i \in Sessions : GetUserMedia(i, TRUE)
  \/ \E i \in Sessions : ScreenGranted(i, "none")
  \/ \E i \in Sessions : OnOpen(i)
  \/ \E i \in Sessions : OnError(i)
  \/ \E i \in Sessions : OnClose(i)
  \/ \E i \in Sessions, m \in PlayMessages : PlayMessage(i, m)
  \/ \E k \in Handles, ok \in BOOLEAN : DecodeDone(k, ok)
  \/ \E i \in Sessions : ClockTick(i)
  \/ \E h \in Handles : SourceEnded(h)

PlaySpec == Init /\ [][PlayNext]_vars

\* The uplink: the user grants both permissions, the connections open; audio
\* and image frames are captured and sent while sessions are started,
\* stopped, closed or fail.
UplinkNext ==
  \/ HandleStartSession
  \/ KillSession
  \/ CleanupResumeInput
  \/ CleanupResumeOutput
  \/ \E i \in Sessions : StartCleanupResumeInput(i)
  \/ \E i \in Sessions : StartCleanupResumeOutput(i)
  \/ \E i \in Sessions : StartAfterCleanup(i)
  \/ \E i \in Sessions : GetUserMedia(i, TRUE)
  \/ \E i \in Sessions : ScreenGranted(i, "none")
  \/ \E i \in Sessions : ScreenTrackEnded(i)
  \/ \E i \in Sessions : OnOpen(i)
  \/ \E i \in Sessions : OnError(i)
  \/ \E i \in Sessions : OnClose(i)
  \/ \E i \in Sessions : SessionResolved(i)
  \/ \E i \in Sessions : AudioProcess(i)
  \/ \E i \in Sessions : FrameTick(i)
  \/ \E i \in Sessions : EncodeDone(i)

UplinkSpec == Init /\ [][UplinkNext]_vars

\* The screen-share runs: starts and stops, the ended event of the screen
\* track with its history, and the image uplink.
ShareNext ==
  \/ HandleStartSession
  \/ KillSession
  \/ CleanupResumeInput
  \/ CleanupResumeOutput
  \/ \E i \in Sessions : StartCleanupResumeInput(i)
  \/ \E i \in Sessions : StartCleanupResumeOutput(i)
  \/ \E i \in Sessions : StartAfterCleanup(i)
  \/ \E i \in Sessions : GetUserMedia(i, TRUE)
  \/ \E i \in Sessions : ScreenGranted(i, "none")
  \/ \E i \in Sessions : ScreenTrackEndedSignal(i)
  \/ \E i \in Sessions : OnOpen(i)
  \/ \E i \in Sessions : OnClose(i)
  \/ \E i \in Sessions : SessionResolved(i)
  \/ \E i \in Sessions : FrameTick(i)
  \/ \E i \in Sessions : EncodeDone(i)

ShareSpec == Init /\ [][ShareNext]_vars

\* ---------------------------------------------------------------------
\* properties
\* ---------------------------------------------------------------------

\* No handler of the component is suspended at an await.
NoHandlerSuspended ==
  /\ \A i \in Sessions : pc[i] \in {"none", "done"}
  /\ cleanupsIn = 0
  /\ cleanupsOut = 0
  /\ decodes = {}

\* Session i holds one of the resources it acquired.
Holds(i) ==
  \/ micStream[i] = "live"
  \/ screenStream[i] = "live"
  \/ inputCtx[i] = "live"
  \/ outputCtx[i] = "live"

\* C1: once the session has ended (SessionState is Idle or Error and no
\* handler is still running), no microphone stream, screen stream, input or
\* output audio context acquired by any session is still live.
C1_ReleasedWhenEnded ==
  (status \in {"idle", "error"} /\ NoHandlerSuspended) => \A i \in Sessions : ~Holds(i)

\* C2: cleanup run twice in a row raises no error and leaves the state that
\* one run leaves: Idle, no stream, no audio context, no transport handle,
\* empty ActiveSourceSet; and no run of cleanup has raised an error.
C2_CleanupIdempotent ==
  LET once == CleanupRun(Cur)
      twice == CleanupRun(once)
  IN /\ twice = once
     /\ ~err
     /\ ~once.err
     /\ once.status = "idle"
     /\ once.micStreamRef = 0
     /\ once.screenStreamRef = 0
     /\ once.inputAudioCtxRef = 0
     /\ once.outputAudioCtxRef = 0
     /\ once.sessionPromiseRef = 0
     /\ once.activeSources = {}

\* C2, its case: a second cleanup ran while the first was still awaiting the
\* close of the input context, so it met a context that was already closed.
C2_Witness ==
  /\ cleanupsIn > 0
  /\ cleanupsOut > 0
  /\ inputAudioCtxRef # 0
  /\ inputCtx[inputAudioCtxRef] = "closed"
  /\ CleanupRun(Cur) # Cur

\* A step in which a call of cleanup() returns (a cleanup awaited by
\* handleStartSession returns in the steps that reach "afterCleanup").
CleanupReturns ==
  \/ cleanupsIn' + cleanupsOut' < cleanupsIn + cleanupsOut
  \/ /\ cleanupsIn' = cleanupsIn
     /\ cleanupsOut' = cleanupsOut
     /\ \/ stops' # stops
        \/ \E i \in Sessions : conn[i] # "closed" /\ conn'[i] = "closed"
  \/ \E i \in Sessions : pc[i] # "afterCleanup" /\ pc'[i] = "afterCleanup"

\* What cleanup() is to have established when it returns.
CleanedUp ==
  /\ status = "idle"
  /\ \A i \in Sessions : frameInterval[i] # "running" /\ volumeLoop[i] # "running"
  /\ \A i \in Sessions : micStream[i] = "live" => pc[i] = "getDisplayMedia"
  /\ \A i \in Sessions : screenStream[i] # "live"
  /\ \A i \in Sessions : inputCtx[i] # "live" /\ outputCtx[i] # "live"
  /\ activeSources = {}
  /\ \A h \in MsgIds : src[h].state # "scheduled"
  /\ sessionPromiseRef = 0

\* C3: when cleanup() has completed, from whatever state it was called, the
\* frame interval and the volume loop are cancelled, the tracks of the
\* microphone and screen streams are stopped, both audio contexts are closed,
\* every handle of ActiveSourceSet is stopped and the set is empty, the
\* transport handle is null and SessionState is Idle.
C3_CleanupCompletes == [][CleanupReturns => CleanedUp']_vars

\* A step in which handleStartSession is called.
StartCalled == calls' = calls + 1

\* The call changes nothing the component can read: it acquires nothing,
\* opens no session, runs no cleanup, and has returned.
StartIsNoOp ==
  /\ UNCHANGED progVars
  /\ UNCHANGED <<cleanupsIn, cleanupsOut, decodes>>
  /\ pc'[calls'] = "done"

\* C4: handleStartSession called while SessionState is Connecting returns at
\* once: no microphone or screen request, no remote session, no cleanup, and
\* SessionState and every resource are as before.
C4_StartWhileConnecting == [][(StartCalled /\ status = "connecting") => StartIsNoOp]_vars

\* C4, its case: the second call came while the first was waiting for the
\* microphone, and has returned without acquiring anything.
C4_Witness ==
  /\ calls = 2
  /\ stops = 0
  /\ pc[1] = "getUserMedia"
  /\ pc[2] = "done"
  /\ status = "connecting"
  /\ micStream[2] = "none"

ScreenRefusedStep(i) ==
  pc[i] = "getDisplayMedia" /\ pc'[i] = "done" /\ screenStream'[i] = "none"

\* Start i has ended by the refusal of its screen share request.
EndedByScreenRefusal(i) ==
  pc[i] = "done" /\ micStream[i] # "none" /\ screenStream[i] = "none"

\* C6: when start obtained the microphone and the screen share is refused,
\* SessionState becomes Idle, the tracks of that microphone stream are
\* stopped, and that start opens no remote session, then or later.
C6_ScreenRefused ==
  /\ [][\A i \in Sessions : ScreenRefusedStep(i) =>
          /\ status' = "idle"
          /\ micStream'[i] = "stopped"
          /\ conn'[i] = "none"]_vars
  /\ [](\A i \in Sessions : EndedByScreenRefusal(i) =>
          /\ micStream[i] = "stopped"
          /\ inputCtx[i] = "none"
          /\ outputCtx[i] = "none"
          /\ conn[i] = "none")

\* C6, its case: a start ended by the refusal of the screen share.
C6_Witness == \E i \in Sessions : EndedByScreenRefusal(i) /\ status = "idle"

\* The step in which the microphone request of start i is refused.
MicRefusedStep(i) == pc[i] = "getUserMedia" /\ pc'[i] = "done"

\* C7: when the microphone request is refused, SessionState becomes Idle,
\* not Error, no remote session is opened and no resource is held.
C7_MicRefused ==
  [][\A i \in Sessions : MicRefusedStep(i) =>
       /\ status' = "idle"
       /\ conn'[i] = "none"
       /\ ~Holds(i)']_vars

\* The changes of SessionState the state machine allows.
AllowedEdges ==
  { <<"idle", "connecting">>, <<"connecting", "active">>, <<"active", "idle">>,
    <<"connecting", "idle">>, <<"error", "idle">>,
    <<"idle", "error">>, <<"connecting", "error">>, <<"active", "error">> }

\* The step is the open event of the session the component currently holds.
OpensCurrentSession ==
  \E i \in Sessions : conn[i] = "connecting" /\ conn'[i] = "open" /\ sessionPromiseRef = i

\* C9: every change of SessionState is an edge of the state machine, and
\* SessionState becomes Active only from Connecting, on the open event of the
\* current session.
C9_StateMachine ==
  [][status' # status =>
       /\ <<status, status'>> \in AllowedEdges
       /\ status' = "active" => OpensCurrentSession]_vars

\* The message that carries the Interrupted event and nothing else.
InterruptedMsg == Msg(0, <<>>, <<>>, FALSE, TRUE)

\* C10: when an Interrupted event is received in an Active session, every
\* handle of ActiveSourceSet is stopped, the set becomes empty and the
\* playback cursor becomes 0.
C10_Interrupted ==
  [][(status = "active" /\ \E i \in Sessions : OnMessage(i, InterruptedMsg)) =>
       /\ activeSources' = {}
       /\ nextStartTime' = 0
       /\ \A h \in activeSources : src'[h].state = "stopped"]_vars

\* C8: when the remote side fails the session the component holds while it
\* is connecting (the session promise is rejected, or the error callback is
\* made), SessionState eventually becomes Error.
C8_ConnectFailureLeadsToError ==
  \A i \in Sessions :
    (status = "connecting" /\ sessionPromiseRef = i /\ conn[i] \in {"rejected", "errored"})
      ~> (status = "error")


\* ---------------------------------------------------------------------
\* playback scheduling
\* ---------------------------------------------------------------------

\* Handle h was given to src.start() (line 273).
Scheduled(h) == src[h].state # "none"

\* The total duration of the chunks numbered a..b-1 that were scheduled.
RECURSIVE SumDur(_, _)
SumDur(a, b) ==
  IF a >= b THEN 0
  ELSE (IF Scheduled(a) THEN src[a].dur ELSE 0) + SumDur(a + 1, b)

\* Chunks h and k, received in this order, were scheduled on the same output
\* context with no Interrupted event between them.
SameRun(h, k) ==
  /\ h < k
  /\ Scheduled(h)
  /\ Scheduled(k)
  /\ src[h].ctx = src[k].ctx
  /\ \A x \in heardInterrupt : ~(h < x /\ x < k)

\* C11: of the audio chunks received in one session with no interruption,
\* chunk k starts no earlier than an earlier chunk h's start plus the
\* durations of chunks h..k-1: no two chunks overlap in playback.
C11_NoOverlap ==
  \A h \in Handles, k \in Handles :
    SameRun(h, k) => src[k].start >= src[h].start + SumDur(h, k)


\* The step schedules chunk k: its node is given to src.start().
Schedules(k) == ~Scheduled(k) /\ src'[k].state = "scheduled"

\* Chunk p is the chunk scheduled last: the one whose end the cursor holds.
ScheduledLast(p) ==
  /\ Scheduled(p)
  /\ \A h \in Handles : Scheduled(h) => src[h].start <= src[p].start

\* C12: a chunk scheduled while the output clock has not passed the end of
\* the chunk scheduled before it (that chunk is still queued or playing)
\* starts exactly at that chunk's start plus that chunk's duration.
C12_Gapless ==
  [][\A k \in Handles, p \in Handles :
       (/\ Schedules(k)
        /\ ScheduledLast(p)
        /\ src'[k].ctx = src[p].ctx
        /\ outputClock[src[p].ctx] <= src[p].start + src[p].dur)
       => src'[k].start = src[p].start + src[p].dur]_vars

\* Two chunks were scheduled back to back after the clock had advanced, and
\* the second was scheduled while the first had not finished.
C12_Witness ==
  \E p \in Handles, k \in Handles :
    /\ p # k
    /\ Scheduled(p)
    /\ Scheduled(k)
    /\ src[p].start >= 1
    /\ src[k].start = src[p].start + src[p].dur
    /\ outputClock[src[p].ctx] >= 1
    /\ outputClock[src[p].ctx] <= src[p].start + src[p].dur


\* C13: ActiveSourceSet holds only handles that were scheduled and have not
\* finished: a handle whose playback has ended, or that was stopped, is no
\* longer in the set.
C13_ActiveSourcesLive ==
  \A h \in activeSources : src[h].state = "scheduled"


\* The step handles a message with the interrupted flag.
HandlesInterrupted == heardInterrupt' # heardInterrupt

\* C14: the cursor becomes 0 in a step that handles an Interrupted event and
\* decreases in no other step.
C14_CursorMonotone ==
  [][IF HandlesInterrupted THEN nextStartTime' = 0
     ELSE nextStartTime' >= nextStartTime]_vars


\* ---------------------------------------------------------------------
\* transcript assembly
\* ---------------------------------------------------------------------

\* The entry a turn yields for a role: none when no text was received.
TurnEntry(role, text) ==
  IF text = <<>> THEN <<>> ELSE << [role |-> role, text |-> text] >>

\* The entries the step appended to the transcript log, without timestamps.
Appended ==
  [k \in 1..(Len(transcriptions') - Len(transcriptions)) |->
     [role |-> transcriptions'[Len(transcriptions) + k].role,
      text |-> transcriptions'[Len(transcriptions) + k].text]]

\* The step delivers the turnComplete message m (which has no audio) on the
\* connection of session i.
TurnCompleteStep(i, m) ==
  /\ m.turnComplete
  /\ m.audio = 0
  /\ onmessage(i, m)

\* C15: on TurnComplete the log gains, for each role, exactly one entry whose
\* text is the concatenation in arrival order of the deltas of that role
\* received since the previous TurnComplete (none for a role without deltas),
\* and afterwards both pending buffers are empty.
C15_TurnFlush ==
  [][\A i \in Sessions, m \in PlayMessages :
       TurnCompleteStep(i, m) =>
         /\ Len(transcriptions') >= Len(transcriptions)
         /\ Appended = TurnEntry("user", heardInput[i] \o m.inputTranscription)
                          \o TurnEntry("model", heardOutput[i] \o m.outputTranscription)
         /\ currentInput' = <<>>
         /\ currentOutput' = <<>>]_vars


\* The roles of the entries the step appended, in order.
AppendedRoles == [k \in 1..Len(Appended) |-> Appended[k].role]

\* C16: a step that flushes both pending buffers appends the user entry
\* immediately before the model entry; no step appends the entries of a turn
\* in another order.
C16_UserBeforeModel ==
  [][Len(transcriptions') > Len(transcriptions) =>
       /\ AppendedRoles \in {<<"user">>, <<"model">>, <<"user", "model">>}
       /\ (currentInput # <<>> /\ currentOutput # <<>>) =>
            AppendedRoles = <<"user", "model">>]_vars

\* A turn with both an input and an output transcription was flushed.
C16_Witness ==
  \E k \in 1..(Len(transcriptions) - 1) :
    /\ transcriptions[k].role = "user"
    /\ transcriptions[k + 1].role = "model"
    /\ transcriptions[k].timestamp = transcriptions[k + 1].timestamp


\* Text part occurs in text whole, as one run of consecutive characters.
Contains(text, part) ==
  \E a \in 0..Len(text) :
    /\ a + Len(part) <= Len(text)
    /\ \A k \in 1..Len(part) : text[a + k] = part[k]

\* cleanup() has not run since the session was started.
NeverCleaned ==
  /\ calls = 1
  /\ stops = 0
  /\ \A j \in Sessions : conn[j] # "closed"

\* C18: server events take effect in the order received: the deltas received
\* on a connection before a TurnComplete are part of the entry of their role
\* which that TurnComplete flushes, also when a delta came in a message whose
\* audio is still being decoded when the TurnComplete arrives.
C18_EventOrder ==
  [][\A i \in Sessions, m \in PlayMessages :
       (NeverCleaned /\ TurnCompleteStep(i, m)) =>
         /\ heardInput[i] # <<>> =>
              \E k \in 1..Len(Appended) :
                Appended[k].role = "user" /\ Contains(Appended[k].text, heardInput[i])
         /\ heardOutput[i] # <<>> =>
              \E k \in 1..Len(Appended) :
                Appended[k].role = "model" /\ Contains(Appended[k].text, heardOutput[i])]_vars


\* C19: a decode failure has the effect of the message without its chunk:
\* SessionState, ActiveSourceSet and the cursor are unchanged, and the
\* transcript deltas and the TurnComplete of the message are applied.
C19_DecodeFailure ==
  [][\A d \in decodes :
       DecodeDone(d.id, FALSE) =>
         LET ci == currentInput \o d.msg.inputTranscription
             co == currentOutput \o d.msg.outputTranscription
         IN /\ status' = status
            /\ activeSources' = activeSources
            /\ nextStartTime' = nextStartTime
            /\ currentInput' = IF d.msg.turnComplete THEN <<>> ELSE ci
            /\ currentOutput' = IF d.msg.turnComplete THEN <<>> ELSE co
            /\ Appended = IF d.msg.turnComplete
                            THEN TurnEntry("user", ci) \o TurnEntry("model", co)
                            ELSE <<>>]_vars


\* ---------------------------------------------------------------------
\* the uplink
\* ---------------------------------------------------------------------

\* cleanup() has run for session i after it connected: cleanup is what stops
\* the microphone of a session that got as far as connecting.
CleanupRan(i) == conn[i] # "none" /\ micStream[i] = "stopped"

\* C17: after cleanup() of a session no uplink frame reaches that session's
\* remote handle: a send still in flight when cleanup ran does nothing.
C17_NoSendAfterCleanup ==
  [][\A i \in Sessions : CleanupRan(i) => sent'[i] = sent[i]]_vars


\* The frames of fs are in the order in which their sends were submitted.
InSubmissionOrder(fs) ==
  \A a \in 1..Len(fs), b \in 1..Len(fs) : a < b => fs[a].id < fs[b].id

\* The step submits the send of a frame for session i.
Submits(i) == AudioProcess(i) \/ EncodeDone(i)

\* The frame the step submits.
Submitted(kind) == Frame(nFrames + 1, kind)

\* C20: the sends of a session are delivered in the order submitted; a send
\* submitted before the session handle resolves is buffered and delivered, in
\* that order, when it resolves; a send for a connection that has closed or
\* failed is dropped and changes neither SessionState nor raises.
C20_UplinkOrder ==
  /\ [](\A i \in Sessions :
          /\ InSubmissionOrder(sent[i] \o pendingSends[i])
          /\ resolved[i] => pendingSends[i] = <<>>)
  /\ [][\A i \in Sessions :
          /\ Submits(i) =>
               \E kind \in {"audio", "image"} :
                 /\ status' = status
                 /\ err' = err
                 /\ IF ~resolved[i]
                      THEN /\ pendingSends'[i] = Append(pendingSends[i], Submitted(kind))
                           /\ sent'[i] = sent[i]
                      ELSE /\ pendingSends'[i] = <<>>
                           /\ sent'[i] = IF conn[i] = "open"
                                            THEN Append(sent[i], Submitted(kind))
                                            ELSE sent[i]
          /\ SessionResolved(i) =>
               /\ status' = status
               /\ err' = err
               /\ sent'[i] = IF conn[i] = "open" THEN sent[i] \o pendingSends[i]
                              ELSE sent[i]]_vars

\* Two frames of the only session were delivered in order and a third,
\* submitted after its connection had closed or failed, was dropped.
C20_Witness ==
  /\ calls = 1
  /\ nFrames = 3
  /\ resolved[1]
  /\ Len(sent[1]) = 2
  /\ sent[1][1].id < sent[1][2].id
  /\ conn[1] \in {"closed", "errored"}
  /\ status \in {"idle", "error"}



\* ---------------------------------------------------------------------
\* signal processing of the capture callbacks (LiveSession.tsx:151-164,
\* 235-238, 249-254).  Samples are rationals num/den with den > 0, the
\* arithmetic is exact, and 0/0 stands for NaN.  Rates are positive
\* integers in a common unit.
\* ---------------------------------------------------------------------

MaxLen == 3
MaxRate == 3
MaxAmp == 3
MaxDim == 3

NaN == [num |-> 0, den |-> 0]
IsNaN(s) == s.den = 0

\* the samples of an input buffer: the multiples of 1/2 up to MaxAmp/2
Samples == { [num |-> n, den |-> 2] : n \in -MaxAmp..MaxAmp }
Rates == 1..MaxRate
Buffers == UNION { [1..n -> Samples] : n \in 0..MaxLen }

AudioCaptures ==
  { [kind |-> "audio", data |-> d, fromRate |-> f, toRate |-> t] :
      d \in Buffers, f \in Rates, t \in Rates }
VideoCaptures ==
  { [kind |-> "video", videoWidth |-> w, videoHeight |-> h] :
      w \in 0..MaxDim, h \in 0..MaxDim }

Abs(x) == IF x < 0 THEN -x ELSE x

\* Math.round(num / den) for den > 0: the nearest integer, halves upwards
MathRound(num, den) == (2 * num + den) \div (2 * den)

\* Math.trunc(num / den) for den > 0
MathTrunc(num, den) == IF num >= 0 THEN num \div den ELSE -((-num) \div den)

\* line 152: if (Math.abs(fromRate - toRate) < 1) return data
SameRate(fromRate, toRate) == Abs(fromRate - toRate) < 1

EarlyReturnEmpty(data) == <<>>

EarlyReturn(data) == data

\* lines 153-154: ratio = fromRate / toRate; Math.round(data.length / ratio)
NewLengthInverted(len, fromRate, toRate) == MathRound(len * fromRate, toRate)

NewLength(len, fromRate, toRate) == MathRound(len * toRate, fromRate)

\* lines 157-159: pos = i * ratio; index = Math.floor(pos);
\* fraction = pos - index = FractionNum / toRate
Index(i, fromRate, toRate) == (i * fromRate) \div toRate
FractionNum(i, fromRate, toRate) == (i * fromRate) % toRate

\* line 160: if (index + 1 < data.length)
UsesNextInclusive(index, len) == index + 1 <= len

UsesNext(index, len) == index + 1 < len

\* data[k] of a Float32Array: undefined outside 0..length-1, which every
\* arithmetic use and the store into a Float32Array turn into NaN
At(data, k) == IF k \in 0..(Len(data) - 1) THEN data[k + 1] ELSE NaN

\* line 160: data[index] * (1 - fraction) + data[index + 1] * fraction
Interpolate(a, b, fnum, toRate) ==
  IF IsNaN(a) \/ IsNaN(b) THEN NaN
  ELSE [num |-> a.num * b.den * (toRate - fnum) + b.num * a.den * fnum,
        den |-> a.den * b.den * toRate]

\* lines 157-161: result[i]
ResultAt(data, i, fromRate, toRate) ==
  LET index == Index(i, fromRate, toRate) IN
  IF UsesNext(index, Len(data))
    THEN Interpolate(At(data, index), At(data, index + 1),
                     FractionNum(i, fromRate, toRate), toRate)
    ELSE At(data, index)

\* lines 160-161: the indices of data read for result[i]
ReadsAt(data, i, fromRate, toRate) ==
  LET index == Index(i, fromRate, toRate) IN
  IF UsesNext(index, Len(data)) THEN {index, index + 1} ELSE {index}

\* lines 151-164
resample(data, fromRate, toRate) ==
  IF SameRate(fromRate, toRate) THEN EarlyReturn(data)
  ELSE [k \in 1..NewLength(Len(data), fromRate, toRate) |->
          ResultAt(data, k - 1, fromRate, toRate)]

\* every index of data that resample reads
resampleReads(data, fromRate, toRate) ==
  IF SameRate(fromRate, toRate) THEN {}
  ELSE UNION { ReadsAt(data, k - 1, fromRate, toRate) :
                 k \in 1..NewLength(Len(data), fromRate, toRate) }

\* line 238: the factor of resampled[i] * 32768
Int16Scale == 32768
\* line 237: an Int16Array element holds its value modulo 2^16
Int16Modulus == 65536

\* the store into an Int16Array element: modulo 2^16 into -2^15..2^15-1
SaturateInt16(v) ==
  IF v > Int16Scale - 1 THEN Int16Scale - 1
  ELSE IF v < -Int16Scale THEN -Int16Scale ELSE v

WrapInt16(v) == ((v + Int16Scale) % Int16Modulus) - Int16Scale

\* line 238: int16[i] = resampled[i] * 32768 (NaN is stored as 0)
StoreInt16(s) ==
  IF IsNaN(s) THEN 0 ELSE WrapInt16(MathTrunc(s.num * Int16Scale, s.den))

\* line 252: c.width = 1024
CanvasWidth == 1024

\* line 253: c.height = 1024 * (vH / vW); a canvas dimension is an
\* unsigned long, so the fraction is dropped
CanvasHeight(vW, vH) == (CanvasWidth * vH) \div vW

\* line 236: the callback is handed a buffer and resamples it
Resample ==
  /\ capture.kind = "audio"
  /\ produced.stage = "none"
  /\ produced' = [stage |-> "resampled",
                  resampled |-> resample(capture.data, capture.fromRate, capture.toRate),
                  reads |-> resampleReads(capture.data, capture.fromRate, capture.toRate)]
  /\ UNCHANGED <<reactVars, refVars, objVars, ctlVars, err, upVars, ghostVars, capture>>

\* lines 237-238: the resampled buffer is converted to 16-bit PCM
ConvertInt16 ==
  /\ produced.stage = "resampled"
  /\ produced' = [stage |-> "int16",
                  resampled |-> produced.resampled,
                  reads |-> produced.reads,
                  int16 |-> [k \in 1..Len(produced.resampled) |->
                               StoreInt16(produced.resampled[k])]]
  /\ UNCHANGED <<reactVars, refVars, objVars, ctlVars, err, upVars, ghostVars, capture>>

\* lines 249-254: the interval callback sizes the canvas and draws the frame
DrawFrame ==
  /\ capture.kind = "video"
  /\ produced.stage = "none"
  /\ produced' =
       IF capture.videoWidth # 0 /\ capture.videoHeight # 0
         THEN [stage |-> "drawn", width |-> CanvasWidth,
               height |-> CanvasHeight(capture.videoWidth, capture.videoHeight)]
         ELSE [stage |-> "skipped"]
  /\ UNCHANGED <<reactVars, refVars, objVars, ctlVars, err, upVars, ghostVars, capture>>

\* One capture callback on one input
DspInit ==
  /\ ProgInit
  /\ capture \in AudioCaptures \cup VideoCaptures
  /\ produced = NotProduced

DspNext ==
  \/ Resample
  \/ ConvertInt16
  \/ DrawFrame

DspSpec == DspInit /\ [][DspNext]_vars

\* ---------------------------------------------------------------------
\* properties of the signal processing
\* ---------------------------------------------------------------------

\* C22: resampling between equal rates returns the input unchanged.
C22_SameRateIdentity ==
  (produced.stage \in {"resampled", "int16"} /\ capture.fromRate = capture.toRate)
    => produced.resampled = capture.data

\* an equal-rate call on a buffer of full length has returned
C22_Witness ==
  /\ produced.stage = "resampled"
  /\ capture.fromRate = capture.toRate
  /\ Len(capture.data) = MaxLen
  /\ produced.resampled = capture.data

\* r is a nearest integer of num / den (den > 0)
IsNearest(r, num, den) == 2 * Abs(r * den - num) <= den

\* C23: between different rates the output length is round(len * to / from),
\* up to one sample either way.
C23_OutputLength ==
  (produced.stage \in {"resampled", "int16"} /\ capture.fromRate # capture.toRate)
    => \E r \in 0..(MaxLen * MaxRate + 1) :
         /\ IsNearest(r, Len(capture.data) * capture.toRate, capture.fromRate)
         /\ Abs(Len(produced.resampled) - r) <= 1

\* a buffer has been resampled downwards and another length came out
C23_Witness ==
  /\ produced.stage = "resampled"
  /\ capture.fromRate > capture.toRate
  /\ Len(capture.data) = MaxLen
  /\ Len(produced.resampled) \in 1..(MaxLen - 1)

\* C29: resample reads its input only at indices 0..n-1, and an output
\* sample whose index is the last one of the input is that input sample.
C29_ReadsInBounds ==
  (produced.stage \in {"resampled", "int16"} /\ Len(capture.data) > 0)
    => /\ produced.reads \subseteq 0..(Len(capture.data) - 1)
       /\ \A k \in 1..Len(produced.resampled) :
            Index(k - 1, capture.fromRate, capture.toRate) + 1 = Len(capture.data)
              => produced.resampled[k] = capture.data[Len(capture.data)]

\* a resampling between different rates has interpolated and has fallen
\* back to the last input sample
C29_Witness ==
  /\ produced.stage = "resampled"
  /\ capture.fromRate # capture.toRate
  /\ Len(capture.data) = MaxLen
  /\ produced.reads = 0..(MaxLen - 1)
  /\ \E k \in 1..Len(produced.resampled) :
       Index(k - 1, capture.fromRate, capture.toRate) + 1 = MaxLen

\* t is num / den (den > 0) with its fraction dropped
IsTrunc(t, num, den) ==
  /\ Abs(t) * den <= Abs(num)
  /\ Abs(num) < (Abs(t) + 1) * den
  /\ (t >= 0 /\ num >= 0) \/ (t <= 0 /\ num <= 0)

\* C30: every 16-bit sample is trunc(s * 32768) reduced modulo 2^16 into
\* -32768..32767: a product inside that range is stored exactly, and
\* s = 1 is stored as -32768.
C30_Int16Wrap ==
  produced.stage = "int16" =>
    \A k \in 1..Len(produced.int16) :
      LET s == produced.resampled[k]
          p == produced.int16[k]
          n == s.num * 32768
      IN /\ p \in -32768..32767
         /\ \E w \in -MaxAmp..MaxAmp : IsTrunc(p + w * 65536, n, s.den)
         /\ (-32769 * s.den < n /\ n < 32768 * s.den) => IsTrunc(p, n, s.den)
         /\ s.num = s.den => p = -32768

\* a buffer holding 1.0 and a negative sample whose product has a fraction
\* has been converted
C30_Witness ==
  /\ produced.stage = "int16"
  /\ \E k \in 1..Len(produced.int16) :
       /\ produced.resampled[k].num = produced.resampled[k].den
       /\ produced.int16[k] = -32768
  /\ \E k \in 1..Len(produced.int16) :
       /\ produced.resampled[k].num < 0
       /\ (produced.resampled[k].num * 32768) % produced.resampled[k].den # 0

\* C28: the canvas a frame is drawn on is at most 1024 pixels on its
\* longer side.
C28_BitmapBound ==
  produced.stage = "drawn" => Max(produced.width, produced.height) <= 1024

\* C24: the step that schedules a chunk gives it a start that is not before
\* the output clock of its context at that step.
C24_StartNotInPast ==
  [][\A k \in Handles :
       Schedules(k) => src'[k].start >= outputClock[src'[k].ctx]]_vars

\* C25: of two chunks of one session with no interruption between them, the
\* one received first ends no later than the other starts, in whatever
\* order their decodes complete.
C25_ArrivalOrder ==
  \A a \in Handles, b \in Handles :
    SameRun(a, b) => src[a].start + src[a].dur <= src[b].start

\* The roles of the entries of a flush in which the input buffer yields an
\* entry iff userEntry and the output buffer iff modelEntry.
RolesOf(userEntry, modelEntry) ==
  (IF userEntry THEN <<"user">> ELSE <<>>) \o (IF modelEntry THEN <<"model">> ELSE <<>>)

\* text holds a character that is not whitespace
HasText(text) == \E k \in 1..Len(text) : text[k] # " "

\* C26 as stated: on TurnComplete a pending buffer yields exactly one entry
\* if it is non-empty (a buffer of whitespace included) and none if it is
\* empty.
C26_FlushNonEmpty ==
  [][\A i \in Sessions, m \in PlayMessages :
       TurnCompleteStep(i, m) =>
         AppendedRoles = RolesOf(currentInput \o m.inputTranscription # <<>>,
                                 currentOutput \o m.outputTranscription # <<>>)]_vars

\* C26 amended: on TurnComplete a pending buffer yields exactly one entry,
\* holding the buffer's text, if it holds a character that is not
\* whitespace, and none if it is empty or holds only whitespace.
C26_FlushNonBlank ==
  [][\A i \in Sessions, m \in PlayMessages :
       TurnCompleteStep(i, m) =>
         LET ci == currentInput \o m.inputTranscription
             co == currentOutput \o m.outputTranscription
         IN /\ AppendedRoles = RolesOf(HasText(ci), HasText(co))
            /\ \A k \in 1..Len(Appended) :
                 Appended[k].text = IF Appended[k].role = "user" THEN ci ELSE co]_vars

\* The first message closed a turn whose input buffer held one space and
\* whose output buffer held text: the log has the model entry alone.
C26_Witness ==
  /\ nMsgs = 1
  /\ Len(transcriptions) = 1
  /\ transcriptions[1].role = "model"
  /\ transcriptions[1].text = <<"b">>

\* The step captures an image of session i (toBlob is called) or submits
\* one (onloadend registers its send).
CapturesImage(i) == encoding'[i] > encoding[i]
SubmitsImage(i) == encoding'[i] < encoding[i]

\* C27: once the screen track of a session has fired ended, no step captures
\* or submits an image frame of that session; the ended handler itself
\* leaves the session status and the error state as they are.
C27_StopsOnTrackEnded ==
  [][\A i \in Sessions :
       /\ i \in endedSignal => (~CapturesImage(i) /\ ~SubmitsImage(i))
       /\ ScreenTrackEndedSignal(i) =>
            (status' = status /\ errorMsg' = errorMsg /\ err' = err)]_vars

\* A call of handleStartSession that has not returned: it passed the guard
\* and stands at one of its awaits.
StartInProgress(i) == pc[i] \notin {"none", "done"}

\* The connection of session i has not been closed, refused or failed.
ConnLive(i) == conn[i] \in {"connecting", "open"}

\* C34: at most one start is in progress, and at most one microphone
\* stream, one screen stream and one remote connection are live.
C34_SingleSession ==
  /\ Cardinality({i \in Sessions : StartInProgress(i)}) <= 1
  /\ Cardinality({i \in Sessions : micStream[i] = "live"}) <= 1
  /\ Cardinality({i \in Sessions : screenStream[i] = "live"}) <= 1
  /\ Cardinality({i \in Sessions : ConnLive(i)}) <= 1

\* cleanup() has run since the message of the pending decode d arrived: the
\* output context the message found is closing or closed, or is no longer
\* the one the component holds.
CleanedSinceArrival(d) ==
  outputAudioCtxRef # d.ctx \/ outputCtx[d.ctx] # "live"

\* C32: the completion of a decode that was in flight when cleanup() ran
\* schedules nothing: the chunk gets no node, ActiveSourceSet and the
\* cursor stay as cleanup left them.
C32_NoScheduleAfterCleanup ==
  [][\A d \in decodes :
       (CleanedSinceArrival(d) /\ DecodeDone(d.id, TRUE)) =>
         /\ src'[d.id] = src[d.id]
         /\ activeSources' = activeSources
         /\ nextStartTime' = nextStartTime]_vars

\* The step schedules chunk k as the first chunk on its output context.
SchedulesFirst(k) ==
  /\ Schedules(k)
  /\ \A h \in Handles : Scheduled(h) => src[h].ctx # src'[k].ctx

\* C33: the first chunk scheduled on the output of a session starts at
\* that output's clock at the step that schedules it, whatever cursor an
\* earlier session left.
C33_FirstChunkAtClock ==
  [][\A k \in Handles :
       SchedulesFirst(k) => src'[k].start = outputClock[src'[k].ctx]]_vars

\* Session i has been superseded: cleanup() has stopped its streams after
\* it had created its connection, and the component holds the live
\* connection of a later start.
Superseded(i) ==
  /\ CleanupRan(i)
  /\ \E j \in Sessions : j > i /\ ConnLive(j) /\ sessionPromiseRef = j

\* The step is a callback of the connection of session i: a message, the
\* close or an error.
CallbackOf(i) ==
  \/ \E m \in Messages : OnMessage(i, m)
  \/ OnClose(i)
  \/ OnError(i)

\* C31: a callback of a superseded session leaves the later session alone:
\* no decode is started on another session's output, the transcript, the
\* pending buffers and the playback state stay as they are, no stream or
\* audio context changes state, and SessionState is unchanged.
C31_StaleCallbacksInert ==
  [][\A i \in Sessions :
       (Superseded(i) /\ CallbackOf(i)) =>
         /\ \A d \in decodes' \ decodes : d.ctx = i
         /\ UNCHANGED <<transcriptions, currentInput, currentOutput, liveInput, liveOutput>>
         /\ UNCHANGED <<nextStartTime, activeSources, src>>
         /\ UNCHANGED <<micStream, screenStream, inputCtx, outputCtx, frameInterval, volumeLoop>>
         /\ UNCHANGED <<status, errorMsg>>]_vars

\* C21: the transcript log is append-only: in every step the log before the
\* step is a prefix of the log after it, entry by entry (role, text and
\* timestamp).
C21_AppendOnly ==
  [][/\ Len(transcriptions') >= Len(transcriptions)
     /\ \A k \in 1..Len(transcriptions) : transcriptions'[k] = transcriptions[k]]_vars

\* A log with an entry has been through a second flush and a cleanup().
C21_Witness ==
  /\ Len(transcriptions) >= 2
  /\ transcriptions[1].timestamp < transcriptions[Len(transcriptions)].timestamp
  /\ stops = 1
  /\ status = "idle"

=============================================================================
